---- MODULE Spec2Model ----
(***************************************************************************)
(* niflheim: the event pub/sub bus (base/events.py) and the effect         *)
(* lifecycle manager (systems/effects/effects.py).                         *)
(*                                                                         *)
(* Spec       : one EffectHandler driven by add / remove calls.            *)
(* SpecEvents : publishers, listeners and one topic driven by the bus API. *)
(* SpecStream : one EventStream driven by create / add / get / remove.     *)
(* SpecReentrant : the bus with handlers that call back into the bus.      *)
(* SpecHandler : one EffectHandler together with its topic's subscribers.  *)
(***************************************************************************)
EXTENDS Integers, Sequences, FiniteSets, TLC

VARIABLES
    _dict,        \* EffectHandler._dict : type -> deque of effects
    delivered,    \* receipts of Effect.events.on_notify, in call order
    calls,        \* the add / remove calls made so far, with their outcome
    subscribers,  \* EventPublisher.subscribers, per publisher
    publishers,   \* EventListener.publishers, per listener
    listeners,    \* EventListener.listeners, per listener: event type -> handler
    received,     \* receipts of on_notify during the last bus call
    outcome,      \* the last bus call and how it ended
    busCalls,     \* the number of bus calls made so far
    topics,       \* EventStream.topics : name -> EventTopic
    streamCall    \* the last EventStream call and how it ended

effectVars == <<_dict, delivered, calls>>
eventVars  == <<subscribers, publishers, listeners, received, outcome,
                busCalls>>
streamVars == <<topics, streamCall>>
vars       == <<_dict, delivered, calls, subscribers, publishers, listeners,
                received, outcome, busCalls, topics, streamCall>>

(***************************************************************************)
(* Bounds and inputs                                                       *)
(***************************************************************************)
MaxCalls == 3
MaxBusCalls == 3
MaxStreamCalls == 3

EffectTypes == {"dot", "hot"}

\* Two effect objects of every flag combination for type "dot" (poison,
\* poison2, ...), one for type "hot".
Effects ==
    [id : {1, 2}, type : {"dot"}, unique : BOOLEAN, refreshable : BOOLEAN]
    \cup
    [id : {1}, type : {"hot"}, unique : BOOLEAN, refreshable : BOOLEAN]

None == "None"

(***************************************************************************)
(* collections.deque, as EffectHandler uses it                             *)
(***************************************************************************)
\* deque([], 1): a bounded deque of one slot
UniqueMaxlen == 1
\* deque(): maxlen None, written 0
Unbounded == 0

deque(maxlen) == [maxlen |-> maxlen, items |-> <<>>]

appendleft_keeps_all(d, x) == [d EXCEPT !.items = <<x>> \o d.items]

\* d.appendleft(x): x goes in at the left; a full bounded deque drops its
\* right-most item.
appendleft(d, x) ==
    LET s == <<x>> \o d.items
    IN  IF d.maxlen # Unbounded /\ Len(s) > d.maxlen
        THEN [d EXCEPT !.items = SubSeq(s, 1, d.maxlen)]
        ELSE [d EXCEPT !.items = s]

pop_left(d) == [d EXCEPT !.items = Tail(d.items)]

\* d.pop() on a non-empty deque: the right-most item is taken out.
pop(d) == [d EXCEPT !.items = SubSeq(d.items, 1, Len(d.items) - 1)]

(***************************************************************************)
(* Events                                                                  *)
(***************************************************************************)
Upper ==
    [s \in {"APPLIED", "REFRESHED", "REMOVED", "PING", "ping"} |->
        IF s = "ping" THEN "PING" ELSE s]

\* EventFactory.create(etype, **data)
create(etype, data) == [type |-> Upper[etype], data |-> data]

\* EventListener.on_notify(event) on listener `self` with owner `owner` and
\* handler mapping `handlers`.  The owner is injected into the event's data
\* mapping as data["self"] when the event carries none (the mapping is the
\* event's own, so the injection stays for later receivers); the handler
\* registered under the upper-cased type, if any, is invoked with the data.
\* The result is the event as it is afterwards and the receipt left.
on_notify(self, owner, handlers, event) ==
    LET query == Upper[event.type]
        data  == IF "self" \in DOMAIN event.data
                 THEN event.data
                 ELSE [k \in DOMAIN event.data \cup {"self"} |->
                          IF k = "self" THEN owner ELSE event.data[k]]
    IN  [event   |-> [event EXCEPT !.data = data],
         receipt |-> [listener |-> self,
                      type     |-> query,
                      data     |-> data,
                      fired    |-> IF query \in DOMAIN handlers
                                   THEN handlers[query] ELSE None]]

\* the lifecycle hooks EffectFactory.create registered on effect.events
\* (row.events): here the first object of each kind has all three, the
\* second none.
EffectHooks(effect) ==
    IF effect.id = 1
    THEN [s \in {"APPLIED", "REFRESHED", "REMOVED"} |-> "hook"]
    ELSE <<>>

(***************************************************************************)
(* EffectHandler                                                           *)
(***************************************************************************)
\* the receipts when every effect stored under the type is told as well
emit_to_all_stored(log, effect, status) ==
    LET e == create(status, [source |-> "obj", target |-> "obj",
                             data |-> [self |-> effect]])
        stored == IF effect.type \in DOMAIN _dict
                  THEN _dict[effect.type].items ELSE <<>>
        RECURSIVE tell(_, _)
        tell(lg, i) ==
            IF i > Len(stored) THEN lg
            ELSE tell(Append(lg, on_notify(stored[i], stored[i],
                                           EffectHooks(stored[i]), e).receipt),
                      i + 1)
    IN  tell(Append(log, on_notify(effect, effect, EffectHooks(effect),
                                   e).receipt), 1)

\* EffectHandler.emit_to(effect, status, data): the event goes to the
\* effect's own listener only.
emit_to(log, effect, status) ==
    LET e == create(status, [source |-> "obj", target |-> "obj",
                             data |-> [self |-> effect]])
    IN  Append(log, on_notify(effect, effect, EffectHooks(effect), e).receipt)

new_bucket_always_bounded(effect) == deque(UniqueMaxlen)

\* the bucket EffectHandler.add creates for a type it has not seen
new_bucket(effect) ==
    IF effect.unique THEN deque(UniqueMaxlen) ELSE deque(Unbounded)

\* EffectHandler.add(effect): the store, the receipts and the return value
add_outcome(store, log, effect) ==
    LET idx == effect.type
        s1  == IF idx \notin DOMAIN store
               THEN [t \in DOMAIN store \cup {idx} |->
                        IF t = idx THEN new_bucket(effect) ELSE store[t]]
               ELSE store
    IN  IF effect.unique
        THEN IF effect.refreshable
             THEN \* appendleft + REFRESHED, then falls through to the
                  \* common appendleft + APPLIED
                  LET s2 == [s1 EXCEPT ![idx] = appendleft(s1[idx], effect)]
                      l2 == emit_to(log, effect, "REFRESHED")
                      s3 == [s2 EXCEPT ![idx] = appendleft(s2[idx], effect)]
                      l3 == emit_to(l2, effect, "APPLIED")
                  IN  [store |-> s3, log |-> l3, result |-> None]
             ELSE [store |-> s1, log |-> log, result |-> "UNIQUE_NO_REFRESH"]
        ELSE [store  |-> [s1 EXCEPT ![idx] = appendleft(s1[idx], effect)],
              log    |-> emit_to(log, effect, "APPLIED"),
              result |-> None]

\* EffectHandler.remove(effect): deque.pop() raises IndexError on an empty
\* deque, before anything is emitted.
remove_outcome(store, log, effect) ==
    LET idx == effect.type
    IN  IF idx \in DOMAIN store
        THEN IF store[idx].items = <<>>
             THEN [store |-> store, log |-> log, result |-> "IndexError"]
             ELSE [store  |-> [store EXCEPT ![idx] = pop(store[idx])],
                   log    |-> emit_to(log, effect, "REMOVED"),
                   result |-> None]
        ELSE [store |-> store, log |-> log, result |-> None]

add(effect) ==
    /\ Len(calls) < MaxCalls
    /\ LET r == add_outcome(_dict, delivered, effect)
       IN  /\ _dict' = r.store
           /\ delivered' = r.log
           /\ calls' = Append(calls, [op |-> "add", effect |-> effect,
                                      result |-> r.result,
                                      before |-> _dict,
                                      seen |-> Len(delivered)])
    /\ UNCHANGED <<eventVars, streamVars>>

remove(effect) ==
    /\ Len(calls) < MaxCalls
    /\ LET r == remove_outcome(_dict, delivered, effect)
       IN  /\ _dict' = r.store
           /\ delivered' = r.log
           /\ calls' = Append(calls, [op |-> "remove", effect |-> effect,
                                      result |-> r.result,
                                      before |-> _dict,
                                      seen |-> Len(delivered)])
    /\ UNCHANGED <<eventVars, streamVars>>

(***************************************************************************)
(* The event bus: one EventPublisher, two EventListeners, one EventTopic   *)
(***************************************************************************)
PlainPublishers == {"P1"}
PlainListeners  == {"L1", "L2"}
Topics          == {"T1"}
\* the objects that have a subscriber set / a handler mapping
Publishers == PlainPublishers \cup Topics
Listeners  == PlainListeners \cup Topics

EventNames == {"PING", "ping"}
Handlers   == {"h1", "h2"}

\* handlers that reach back into the bus when they run, closing over the
\* publisher P1 and the listener they are registered on:
\*   h_unsubscribe : P1.remove_subscriber(listener)
\*   h_subscribe   : P1.add_subscriber(L2)
\*   h_discard     : P1.subscribers.discard(listener)
ReentrantHandlers == {"h_unsubscribe", "h_subscribe", "h_discard"}
HandlerPublisher == "P1"
HandlerNewcomer  == "L2"

\* the methods each class defines (EventTopic inherits both, overrides none)
EventListenerMethods ==
    {"on_notify", "on_destroy", "add_event_listener", "on",
     "remove_event_listener", "off", "add_publisher", "remove_publisher",
     "all"}
EventPublisherMethods ==
    {"notify", "emit", "add_subscriber", "remove_subscriber"}
Methods(obj) ==
    IF obj \in Topics THEN EventListenerMethods \cup EventPublisherMethods
    ELSE IF obj \in PlainListeners THEN EventListenerMethods
    ELSE EventPublisherMethods

\* EventListener.__init__(owner=None): a plain listener is built for an
\* owner (named like the listener here); EventTopic.__init__ passes none.
owner_of(listener) == IF listener \in Topics THEN None ELSE listener

\* EventListener.publishers: a set, until on_destroy rebinds it to a list
PublisherSet(elems) == [kind |-> "set", elems |-> elems]
PublisherList == [kind |-> "list", elems |-> {}]

\* EventListener.add_publisher(publisher)
add_publisher_outcome(pubs, listener, publisher) ==
    IF pubs[listener].kind = "list"
    THEN [publishers |-> pubs, result |-> "AttributeError"]
    ELSE [publishers |->
              [pubs EXCEPT ![listener] = PublisherSet(@.elems \cup {publisher})],
          result |-> None]

\* EventListener.remove_publisher(publisher)
remove_publisher_outcome(pubs, listener, publisher) ==
    IF publisher \notin pubs[listener].elems
    THEN [publishers |-> pubs,
          result |-> IF pubs[listener].kind = "list"
                     THEN "ValueError" ELSE "KeyError"]
    ELSE [publishers |->
              [pubs EXCEPT ![listener] = PublisherSet(@.elems \ {publisher})],
          result |-> None]

\* EventPublisher.add_subscriber(subscriber): the subscriber goes into the
\* set, then subscriber.add_event_publisher is looked up, a name no class
\* defines.
add_subscriber_outcome(subs, pubs, publisher, subscriber) ==
    LET subs1 == [subs EXCEPT ![publisher] = @ \cup {subscriber}]
    IN  IF "add_event_publisher" \in Methods(subscriber)
        THEN [subscribers |-> subs1, publishers |-> pubs, result |-> None]
        ELSE [subscribers |-> subs1, publishers |-> pubs,
              result |-> "AttributeError"]

\* EventPublisher.remove_subscriber(subscriber): set.remove raises KeyError
\* for a missing member; then subscriber.remove_event_publisher is looked
\* up, a name no class defines.
remove_subscriber_outcome(subs, pubs, publisher, subscriber) ==
    IF subscriber \notin subs[publisher]
    THEN [subscribers |-> subs, publishers |-> pubs, result |-> "KeyError"]
    ELSE LET subs1 == [subs EXCEPT ![publisher] = @ \ {subscriber}]
         IN  IF "remove_event_publisher" \in Methods(subscriber)
             THEN [subscribers |-> subs1, publishers |-> pubs,
                   result |-> None]
             ELSE [subscribers |-> subs1, publishers |-> pubs,
                   result |-> "AttributeError"]

add_event_listener_overwrites(ls, listener, etype, func) ==
    [listeners |->
         [ls EXCEPT ![listener] =
             [k \in DOMAIN @ \cup {etype} |-> IF k = etype THEN func ELSE @[k]]],
     result |-> IF etype \in DOMAIN ls[listener] THEN "False" ELSE None]

\* EventListener.add_event_listener(etype, func): False for a type that has
\* a handler, else the handler is bound under etype as given
add_event_listener_outcome(ls, listener, etype, func) ==
    IF etype \in DOMAIN ls[listener]
    THEN [listeners |-> ls, result |-> "False"]
    ELSE [listeners |->
              [ls EXCEPT ![listener] =
                  [k \in DOMAIN @ \cup {etype} |->
                      IF k = etype THEN func ELSE @[k]]],
          result |-> None]

\* EventListener.remove_event_listener(etype): KeyError is swallowed
remove_event_listener_outcome(ls, listener, etype) ==
    [listeners |->
         [ls EXCEPT ![listener] = [k \in DOMAIN @ \ {etype} |-> @[k]]],
     result |-> None]

\* obj.on_notify(event), resolved by class: EventTopic defines no on_notify
\* of its own, so a topic runs EventListener.on_notify like any listener.
dispatch_on_notify(ls, obj, event) ==
    on_notify(obj, owner_of(obj), ls[obj], event)

\* what running handler `func` on `listener` does to the subscriber sets,
\* and the exception that leaves it (None for a normal return)
invoke(func, subs, pubs, listener) ==
    IF func = "h_unsubscribe"
    THEN LET r == remove_subscriber_outcome(subs, pubs, HandlerPublisher,
                                            listener)
         IN  [subscribers |-> r.subscribers, raised |-> r.result]
    ELSE IF func = "h_subscribe"
    THEN LET r == add_subscriber_outcome(subs, pubs, HandlerPublisher,
                                         HandlerNewcomer)
         IN  [subscribers |-> r.subscribers, raised |-> r.result]
    ELSE IF func = "h_discard"
    THEN [subscribers |->
              [subs EXCEPT ![HandlerPublisher] = @ \ {listener}],
          raised |-> None]
    ELSE [subscribers |-> subs, raised |-> None]

\* obj.on_notify(event) with the handler it fires run to its end
deliver(ls, subs, pubs, obj, event) ==
    LET r == dispatch_on_notify(ls, obj, event)
        h == invoke(r.receipt.fired, subs, pubs, obj)
    IN  [event |-> r.event, receipt |-> r.receipt,
         subscribers |-> h.subscribers, raised |-> h.raised]

\* for l in self.subscribers: l.on_notify(event).  The loop walks the live
\* set: `order` is the order of the set as it was when the loop began and
\* `size` its size then.  Every step of the set iterator, the one that ends
\* the loop included, raises RuntimeError once the set's size has changed;
\* an exception leaving a handler ends the loop as well.
RECURSIVE broadcast(_, _, _, _, _, _, _, _)
broadcast(ls, subs, pubs, publisher, order, size, event, log) ==
    IF Cardinality(subs[publisher]) # size
    THEN [received |-> log, subscribers |-> subs, raised |-> "RuntimeError"]
    ELSE IF order = <<>>
    THEN [received |-> log, subscribers |-> subs, raised |-> None]
    ELSE LET d == deliver(ls, subs, pubs, Head(order), event)
         IN  IF d.raised # None
             THEN [received |-> Append(log, d.receipt),
                   subscribers |-> d.subscribers, raised |-> d.raised]
             ELSE broadcast(ls, d.subscribers, pubs, publisher, Tail(order),
                            size, d.event, Append(log, d.receipt))

\* the orders in which a set may be iterated
Orders(S) ==
    {f \in [1..Cardinality(S) -> S] : \A i, j \in DOMAIN f : f[i] = f[j] => i = j}

notify_always_broadcasts(ls, subs, pubs, publisher, event, topic, order) ==
    broadcast(ls, subs, pubs, publisher, order, Len(order), event, <<>>)

\* EventPublisher.notify(event, topic=None): the receipts left, the
\* subscriber sets afterwards and the exception that leaves the call
notify_outcome(ls, subs, pubs, publisher, event, topic, order) ==
    IF topic # None
    THEN LET d == deliver(ls, subs, pubs, topic, event)
         IN  [received |-> <<d.receipt>>, subscribers |-> d.subscribers,
              raised |-> d.raised]
    ELSE broadcast(ls, subs, pubs, publisher, order, Len(order), event, <<>>)

\* EventListener.on_destroy(): for each publisher p, p.remove_event_listener
\* (self) -- a name EventPublisher does not define, and on a topic the
\* handler removal, whose KeyError is swallowed -- then publishers = [].
on_destroy_outcome(pubs, listener) ==
    IF \E p \in pubs[listener].elems : "remove_event_listener" \notin Methods(p)
    THEN [publishers |-> pubs, result |-> "AttributeError"]
    ELSE [publishers |-> [pubs EXCEPT ![listener] = PublisherList],
          result |-> None]

Called(op, self, arg, result) ==
    [op |-> op, self |-> self, arg |-> arg, result |-> result,
     before |-> [subscribers |-> subscribers, publishers |-> publishers,
                 listeners |-> listeners]]

BusStep ==
    /\ busCalls < MaxBusCalls
    /\ busCalls' = busCalls + 1
    /\ UNCHANGED <<effectVars, streamVars>>

add_subscriber(publisher, subscriber) ==
    /\ BusStep
    /\ LET r == add_subscriber_outcome(subscribers, publishers,
                                       publisher, subscriber)
       IN  /\ subscribers' = r.subscribers
           /\ publishers' = r.publishers
           /\ outcome' = Called("add_subscriber", publisher, subscriber,
                                r.result)
    /\ received' = <<>>
    /\ UNCHANGED listeners

remove_subscriber(publisher, subscriber) ==
    /\ BusStep
    /\ LET r == remove_subscriber_outcome(subscribers, publishers,
                                          publisher, subscriber)
       IN  /\ subscribers' = r.subscribers
           /\ publishers' = r.publishers
           /\ outcome' = Called("remove_subscriber", publisher, subscriber,
                                r.result)
    /\ received' = <<>>
    /\ UNCHANGED listeners

add_publisher(listener, publisher) ==
    /\ BusStep
    /\ LET r == add_publisher_outcome(publishers, listener, publisher)
       IN  /\ publishers' = r.publishers
           /\ outcome' = Called("add_publisher", listener, publisher, r.result)
    /\ received' = <<>>
    /\ UNCHANGED <<subscribers, listeners>>

remove_publisher(listener, publisher) ==
    /\ BusStep
    /\ LET r == remove_publisher_outcome(publishers, listener, publisher)
       IN  /\ publishers' = r.publishers
           /\ outcome' = Called("remove_publisher", listener, publisher,
                                r.result)
    /\ received' = <<>>
    /\ UNCHANGED <<subscribers, listeners>>

add_event_listener(listener, etype, func) ==
    /\ BusStep
    /\ LET r == add_event_listener_outcome(listeners, listener, etype, func)
       IN  /\ listeners' = r.listeners
           /\ outcome' = Called("add_event_listener", listener,
                                <<etype, func>>, r.result)
    /\ received' = <<>>
    /\ UNCHANGED <<subscribers, publishers>>

remove_event_listener(listener, etype) ==
    /\ BusStep
    /\ LET r == remove_event_listener_outcome(listeners, listener, etype)
       IN  /\ listeners' = r.listeners
           /\ outcome' = Called("remove_event_listener", listener, etype,
                                r.result)
    /\ received' = <<>>
    /\ UNCHANGED <<subscribers, publishers>>

\* listener.on_notify(EventFactory.create(etype, source=...)) called directly
call_on_notify(listener, etype) ==
    /\ BusStep
    /\ LET d == deliver(listeners, subscribers, publishers, listener,
                        create(etype, [source |-> "src"]))
       IN  /\ received' = <<d.receipt>>
           /\ subscribers' = d.subscribers
           /\ outcome' = Called("on_notify", listener, Upper[etype], d.raised)
    /\ UNCHANGED <<publishers, listeners>>

\* publisher.notify(EventFactory.create(etype, source=...), topic)
notify(publisher, etype, topic) ==
    /\ BusStep
    /\ \E order \in Orders(subscribers[publisher]) :
         LET r == notify_outcome(listeners, subscribers, publishers, publisher,
                      create(etype, [source |-> "src"]), topic, order)
         IN  /\ received' = r.received
             /\ subscribers' = r.subscribers
             /\ outcome' = Called("notify", publisher, <<Upper[etype], topic>>,
                                  r.raised)
    /\ UNCHANGED <<publishers, listeners>>

on_destroy(listener) ==
    /\ BusStep
    /\ LET r == on_destroy_outcome(publishers, listener)
       IN  /\ publishers' = r.publishers
           /\ outcome' = Called("on_destroy", listener, None, r.result)
    /\ received' = <<>>
    /\ UNCHANGED <<subscribers, listeners>>

\* EventPublisher.__init__ / EventListener.__init__
EventsInit ==
    /\ subscribers = [p \in Publishers |-> {}]
    /\ publishers = [l \in Listeners |-> PublisherSet({})]
    /\ listeners = [l \in Listeners |-> <<>>]
    /\ received = <<>>
    /\ outcome = [op |-> "init", self |-> None, arg |-> None, result |-> None,
                  before |-> None]
    /\ busCalls = 0

NextEvents ==
    \/ \E p \in Publishers, s \in Listeners : add_subscriber(p, s)
    \/ \E p \in Publishers, s \in Listeners : remove_subscriber(p, s)
    \/ \E l \in Listeners, p \in Publishers : add_publisher(l, p)
    \/ \E l \in Listeners, p \in Publishers : remove_publisher(l, p)
    \/ \E l \in Listeners, t \in EventNames, h \in Handlers :
          add_event_listener(l, t, h)
    \/ \E l \in Listeners, t \in EventNames : remove_event_listener(l, t)
    \/ \E l \in Listeners, t \in EventNames : call_on_notify(l, t)
    \/ \E p \in Publishers, t \in EventNames, topic \in Topics \cup {None} :
          notify(p, t, topic)
    \/ \E l \in Listeners : on_destroy(l)

(***************************************************************************)
(* EventStream: the registry of topics by name                             *)
(***************************************************************************)
TopicNames == {"combat", "chat", "weather"}

\* an EventTopic object: its name and which object it is
EventTopic(name, serial) == [name |-> name, serial |-> serial]

\* the topic objects built outside the stream and handed to EventStream.add
OutsideTopics == {EventTopic(name, 0) : name \in TopicNames}

\* the topic objects a stream has registered
Registered(ts) == {ts[name] : name \in DOMAIN ts}

\* self.topics[name] = topic
put(ts, name, topic) ==
    [k \in DOMAIN ts \cup {name} |-> IF k = name THEN topic ELSE ts[k]]

\* EventStream.create(topic): raises for a name that exists, else builds
\* EventTopic(topic), registers it under its name and returns it
EventStream_create_outcome(ts, name, serial) ==
    IF name \in DOMAIN ts
    THEN [topics |-> ts, raised |-> "EventException", returned |-> None]
    ELSE LET new_topic == EventTopic(name, serial)
         IN  [topics |-> put(ts, new_topic.name, new_topic),
              raised |-> None, returned |-> new_topic]

EventStream_add_replaces(ts, topic) ==
    [topics |-> put(ts, topic.name, topic),
     raised |-> IF topic.name \in DOMAIN ts THEN "EventException" ELSE None,
     returned |-> IF topic.name \in DOMAIN ts THEN None ELSE "True"]

\* EventStream.add(topic): raises for a name that exists, else registers
\* the topic under its name and returns True
EventStream_add_outcome(ts, topic) ==
    IF topic.name \in DOMAIN ts
    THEN [topics |-> ts, raised |-> "EventException", returned |-> None]
    ELSE [topics |-> put(ts, topic.name, topic),
          raised |-> None, returned |-> "True"]

\* EventStream.get(topic)
EventStream_get_outcome(ts, name) ==
    [topics |-> ts, raised |-> None,
     returned |-> IF name \in DOMAIN ts THEN ts[name] ELSE None]

\* EventStream.remove(topic): KeyError is swallowed
EventStream_remove_outcome(ts, name) ==
    [topics |-> [k \in DOMAIN ts \ {name} |-> ts[k]],
     raised |-> None, returned |-> None]

StreamStep(op, arg, r) ==
    /\ topics' = r.topics
    /\ streamCall' = [op |-> op, arg |-> arg, raised |-> r.raised,
                      returned |-> r.returned, before |-> topics,
                      n |-> streamCall.n + 1]
    /\ UNCHANGED <<effectVars, eventVars>>

\* the topic built by the n-th stream call is a new object
EventStream_create(name) ==
    /\ streamCall.n < MaxStreamCalls
    /\ StreamStep("create", name,
                  EventStream_create_outcome(topics, name, streamCall.n + 1))

EventStream_add(topic) ==
    /\ streamCall.n < MaxStreamCalls
    /\ StreamStep("add", topic.name, EventStream_add_outcome(topics, topic))

EventStream_get(name) ==
    /\ streamCall.n < MaxStreamCalls
    /\ StreamStep("get", name, EventStream_get_outcome(topics, name))

EventStream_remove(name) ==
    /\ streamCall.n < MaxStreamCalls
    /\ StreamStep("remove", name, EventStream_remove_outcome(topics, name))

\* EventStream.__init__
StreamInit ==
    /\ topics = <<>>
    /\ streamCall = [op |-> "init", arg |-> None, raised |-> None,
                     returned |-> None, before |-> <<>>, n |-> 0]

NextStream ==
    \/ \E name \in TopicNames : EventStream_create(name)
    \/ \E topic \in OutsideTopics \cup Registered(topics) :
          EventStream_add(topic)
    \/ \E name \in TopicNames : EventStream_get(name)
    \/ \E name \in TopicNames : EventStream_remove(name)

\* EffectHandler.__init__: an empty OrderedDict
Init ==
    /\ _dict = <<>>
    /\ delivered = <<>>
    /\ calls = <<>>
    /\ EventsInit
    /\ StreamInit

Next ==
    \/ \E effect \in Effects : add(effect)
    \/ \E effect \in Effects : remove(effect)

Spec == Init /\ [][Next]_vars

SpecEvents == Init /\ [][NextEvents]_vars

SpecStream == Init /\ [][NextStream]_vars

\* the bus with listeners whose handlers reach back into it
NextReentrant ==
    \/ \E p \in Publishers, s \in Listeners : add_subscriber(p, s)
    \/ \E l \in Listeners, t \in EventNames, h \in ReentrantHandlers :
          add_event_listener(l, t, h)
    \/ \E l \in Listeners, t \in EventNames : call_on_notify(l, t)
    \/ \E p \in Publishers, t \in EventNames, topic \in Topics \cup {None} :
          notify(p, t, topic)

SpecReentrant == Init /\ [][NextReentrant]_vars

\* EffectHandler.topic, the handler's private EventTopic
HandlerTopic == "T1"

\* EffectHandler.notify(event): self.topic.notify(event)
EffectHandler_notify(etype) == notify(HandlerTopic, etype, None)

\* the effects given to the handler while its topic has subscribers
HandlerEffects == {e \in Effects : e.type = "dot" /\ e.refreshable}

\* one EffectHandler together with the subscribers of its topic
NextHandler ==
    \/ \E effect \in HandlerEffects : add(effect)
    \/ \E effect \in HandlerEffects : remove(effect)
    \/ \E l \in PlainListeners : add_subscriber(HandlerTopic, l)
    \/ \E t \in EventNames : EffectHandler_notify(t)

SpecHandler == Init /\ [][NextHandler]_vars

(***************************************************************************)
(* Reading the call history                                                *)
(***************************************************************************)
HasCall == Len(calls) > 0
LastCall == calls[Len(calls)]
\* the receipts the last call left
LastEvents == SubSeq(delivered, LastCall.seen + 1, Len(delivered))
\* the effects a store holds for a type, left to right
Active(store, type) ==
    IF type \in DOMAIN store THEN store[type].items ELSE <<>>
IsAdd(c) == c.op = "add"
IsRemove(c) == c.op = "remove"
UniqueNoRefresh(effect) == effect.unique /\ ~effect.refreshable
UniqueRefresh(effect) == effect.unique /\ effect.refreshable
\* the receipts of one status delivered to effects of one type
Count(log, status, type) ==
    Cardinality({i \in 1..Len(log) :
        log[i].type = status /\ log[i].listener.type = type})
\* the indices of the calls made for a type
CallsFor(type) == {i \in 1..Len(calls) : calls[i].effect.type = type}

(***************************************************************************)
(* C2: on a handler holding no effect of type T, add of a unique,          *)
(* non-refreshable effect of type T succeeds: it does not return           *)
(* UNIQUE_NO_REFRESH, the effect is stored in T's bucket and exactly one   *)
(* APPLIED is delivered to its listener; a remove of that effect right     *)
(* after delivers REMOVED and leaves the bucket empty.                     *)
(***************************************************************************)
C2_FirstUniqueAddSucceeds ==
    /\ (/\ HasCall
        /\ IsAdd(LastCall)
        /\ UniqueNoRefresh(LastCall.effect)
        /\ Active(LastCall.before, LastCall.effect.type) = <<>>)
       => /\ LastCall.result # "UNIQUE_NO_REFRESH"
          /\ Active(_dict, LastCall.effect.type) = <<LastCall.effect>>
          /\ Len(LastEvents) = 1
          /\ LastEvents[1].type = "APPLIED"
          /\ LastEvents[1].listener = LastCall.effect
    /\ (/\ Len(calls) >= 2
        /\ IsRemove(LastCall)
        /\ IsAdd(calls[Len(calls) - 1])
        /\ calls[Len(calls) - 1].effect = LastCall.effect
        /\ UniqueNoRefresh(LastCall.effect)
        /\ Active(calls[Len(calls) - 1].before, LastCall.effect.type) = <<>>)
       => /\ LastCall.result = None
          /\ Len(LastEvents) = 1
          /\ LastEvents[1].type = "REMOVED"
          /\ LastEvents[1].listener = LastCall.effect
          /\ Active(_dict, LastCall.effect.type) = <<>>

(***************************************************************************)
(* C3: a handler is given two adds of unique, non-refreshable effects of   *)
(* one type T.  The second add returns UNIQUE_NO_REFRESH, leaves the       *)
(* bucket holding the first effect and emits nothing, so exactly one       *)
(* APPLIED was ever emitted for T.                                         *)
(***************************************************************************)
C3_SecondUniqueAddRejected ==
    (/\ Len(calls) = 2
     /\ IsAdd(calls[1]) /\ IsAdd(calls[2])
     /\ UniqueNoRefresh(calls[1].effect) /\ UniqueNoRefresh(calls[2].effect)
     /\ calls[1].effect # calls[2].effect
     /\ calls[1].effect.type = calls[2].effect.type)
    => /\ calls[2].result = "UNIQUE_NO_REFRESH"
       /\ _dict = calls[2].before
       /\ Active(_dict, calls[2].effect.type) = <<calls[1].effect>>
       /\ LastEvents = <<>>
       /\ Count(delivered, "APPLIED", calls[2].effect.type) = 1

(***************************************************************************)
(* C4: when a unique bucket for T is occupied, add of a unique,            *)
(* refreshable effect of type T leaves the bucket holding exactly the new  *)
(* effect, emits REFRESHED to it and emits no APPLIED for that call.       *)
(***************************************************************************)
C4_RefreshEmitsOnlyRefreshed ==
    (/\ HasCall
     /\ IsAdd(LastCall)
     /\ UniqueRefresh(LastCall.effect)
     /\ LastCall.effect.type \in DOMAIN LastCall.before
     /\ LastCall.before[LastCall.effect.type].maxlen = UniqueMaxlen
     /\ LastCall.before[LastCall.effect.type].items # <<>>)
    => /\ Active(_dict, LastCall.effect.type) = <<LastCall.effect>>
       /\ \E i \in 1..Len(LastEvents) :
            /\ LastEvents[i].type = "REFRESHED"
            /\ LastEvents[i].listener = LastCall.effect
       /\ \A i \in 1..Len(LastEvents) : LastEvents[i].type # "APPLIED"

(***************************************************************************)
(* C5: while every call made for a type T is an add of a non-unique        *)
(* effect, N such adds leave N entries in T's bucket (newest first) and    *)
(* exactly N receipts for T, all APPLIED, the k-th for the k-th add.       *)
(***************************************************************************)
\* the receipts delivered to effects of one type, in order
RECURSIVE ReceiptsFor(_, _)
ReceiptsFor(log, type) ==
    IF log = <<>> THEN <<>>
    ELSE LET rest == ReceiptsFor(SubSeq(log, 1, Len(log) - 1), type)
             last == log[Len(log)]
         IN  IF last.listener.type = type THEN Append(rest, last) ELSE rest

\* the effects of the calls made for one type, in order
RECURSIVE EffectsFor(_, _)
EffectsFor(cs, type) ==
    IF cs = <<>> THEN <<>>
    ELSE LET rest == EffectsFor(SubSeq(cs, 1, Len(cs) - 1), type)
             last == cs[Len(cs)]
         IN  IF last.effect.type = type THEN Append(rest, last.effect) ELSE rest

OnlyNonUniqueAdds(type) ==
    /\ CallsFor(type) # {}
    /\ \A i \in CallsFor(type) : IsAdd(calls[i]) /\ ~calls[i].effect.unique

C5_NonUniqueAddsStack ==
    \A type \in EffectTypes :
        OnlyNonUniqueAdds(type) =>
            LET n  == Cardinality(CallsFor(type))
                es == EffectsFor(calls, type)
                rs == ReceiptsFor(delivered, type)
            IN  /\ type \in DOMAIN _dict
                /\ Len(_dict[type].items) = n
                /\ \A k \in 1..n : _dict[type].items[n + 1 - k] = es[k]
                /\ Len(rs) = n
                /\ \A k \in 1..n :
                     rs[k].type = "APPLIED" /\ rs[k].listener = es[k]
                /\ \A i \in CallsFor(type) : calls[i].result = None

C5_Witness ==
    /\ OnlyNonUniqueAdds("dot")
    /\ Cardinality(CallsFor("dot")) = MaxCalls
    /\ Len(_dict["dot"].items) = MaxCalls
    /\ _dict["dot"].items[1] # _dict["dot"].items[2]

(***************************************************************************)
(* C6: remove(effect) on a handler holding no active effect of             *)
(* effect.type raises nothing, emits nothing and leaves the store as it    *)
(* was, both when the bucket was never created and when it exists but was  *)
(* emptied by earlier remove calls.                                        *)
(***************************************************************************)
\* an earlier remove took an effect of this type out
EmptiedByRemove(type) ==
    \E i \in 1..(Len(calls) - 1) :
        /\ IsRemove(calls[i])
        /\ calls[i].effect.type = type
        /\ Active(calls[i].before, type) # <<>>

C6_RemoveOnEmptyIsNoOp ==
    (/\ HasCall
     /\ IsRemove(LastCall)
     /\ \/ LastCall.effect.type \notin DOMAIN LastCall.before
        \/ /\ Active(LastCall.before, LastCall.effect.type) = <<>>
           /\ EmptiedByRemove(LastCall.effect.type))
    => /\ LastCall.result = None
       /\ LastEvents = <<>>
       /\ _dict = LastCall.before

(***************************************************************************)
(* C7 as stated: remove is LIFO.  When the bucket holds two or more        *)
(* effects, remove takes out the most recently added one (the left end,    *)
(* where add inserts), leaves the earlier ones and emits REMOVED.          *)
(***************************************************************************)
RemoveFromTwoOrMore ==
    /\ HasCall
    /\ IsRemove(LastCall)
    /\ Len(Active(LastCall.before, LastCall.effect.type)) >= 2

C7_RemoveIsLIFO ==
    RemoveFromTwoOrMore =>
        /\ Active(_dict, LastCall.effect.type) =
               Tail(Active(LastCall.before, LastCall.effect.type))
        /\ Len(LastEvents) = 1
        /\ LastEvents[1].type = "REMOVED"

(***************************************************************************)
(* C7 amended: remove is FIFO.  When the bucket holds two or more effects, *)
(* remove takes out the one that has been in the bucket longest (the right *)
(* end), leaves the later-added ones, returns normally and delivers one    *)
(* REMOVED to the listener of the effect passed to remove.  After adds of  *)
(* non-unique effects only, the effect taken out is that of the first add. *)
(***************************************************************************)
C7_RemoveIsFIFO ==
    RemoveFromTwoOrMore =>
        LET type   == LastCall.effect.type
            before == Active(LastCall.before, type)
            prior  == SubSeq(calls, 1, Len(calls) - 1)
            es     == EffectsFor(prior, type)
        IN  /\ LastCall.result = None
            /\ Active(_dict, type) = SubSeq(before, 1, Len(before) - 1)
            /\ \A t \in DOMAIN _dict \ {type} : _dict[t] = LastCall.before[t]
            /\ Len(LastEvents) = 1
            /\ LastEvents[1].type = "REMOVED"
            /\ LastEvents[1].listener = LastCall.effect
            /\ (\A i \in 1..Len(prior) :
                    prior[i].effect.type = type =>
                        IsAdd(prior[i]) /\ ~prior[i].effect.unique)
               => /\ before[Len(before)] = es[1]
                  /\ \A k \in 2..Len(es) :
                        Active(_dict, type)[Len(es) + 1 - k] = es[k]

C7_Witness ==
    /\ RemoveFromTwoOrMore
    /\ LastCall.result = None
    /\ LET before == Active(LastCall.before, LastCall.effect.type)
       IN  /\ before[1] # before[Len(before)]
           /\ Active(_dict, LastCall.effect.type) = <<before[1]>>

(***************************************************************************)
(* C8: a bucket created as unique (the first add for its type carried a    *)
(* unique effect) holds at most one effect in every reachable state.       *)
(***************************************************************************)
AddsFor(type) == {i \in CallsFor(type) : IsAdd(calls[i])}

CreatedUnique(type) ==
    /\ AddsFor(type) # {}
    /\ \E i \in AddsFor(type) :
        /\ \A j \in AddsFor(type) : i <= j
        /\ calls[i].effect.unique

C8_UniqueBucketHoldsAtMostOne ==
    \A type \in EffectTypes :
        CreatedUnique(type) =>
            /\ type \in DOMAIN _dict
            /\ Len(_dict[type].items) <= 1

\* a second refreshable effect has displaced the first occupant
C8_Witness ==
    /\ CreatedUnique("dot")
    /\ Len(calls) >= 2
    /\ IsAdd(calls[1]) /\ IsAdd(calls[2])
    /\ UniqueRefresh(calls[1].effect) /\ UniqueRefresh(calls[2].effect)
    /\ calls[1].effect # calls[2].effect
    /\ calls[2].before["dot"].items = <<calls[1].effect>>
    /\ Len(calls) = 2 => _dict["dot"].items = <<calls[2].effect>>

(***************************************************************************)
(* C9: in every reachable state the store holds at most one entry of a     *)
(* given type whose effect is unique, also when unique and non-unique      *)
(* effects of one type are mixed.                                          *)
(***************************************************************************)
UniqueEntries(type) ==
    {i \in 1..Len(Active(_dict, type)) : Active(_dict, type)[i].unique}

C9_AtMostOneUniquePerType ==
    \A type \in EffectTypes : Cardinality(UniqueEntries(type)) <= 1

(***************************************************************************)
(* C1: after publisher P subscribes listener L (add_subscriber) the call   *)
(* has completed normally with L in P.subscribers and P in L.publishers;   *)
(* after P then unsubscribes L (remove_subscriber of a subscribed L) the   *)
(* call has completed normally, L is not in P.subscribers and P is not in  *)
(* L.publishers.                                                           *)
(***************************************************************************)
C1_SubscriptionIsBidirectional ==
    /\ outcome.op = "add_subscriber"
       => /\ outcome.result = None
          /\ outcome.arg \in subscribers[outcome.self]
          /\ outcome.self \in publishers[outcome.arg].elems
    /\ (/\ outcome.op = "remove_subscriber"
        /\ outcome.arg \in outcome.before.subscribers[outcome.self])
       => /\ outcome.result = None
          /\ outcome.arg \notin subscribers[outcome.self]
          /\ outcome.self \notin publishers[outcome.arg].elems

(***************************************************************************)
(* C10: an event delivered to T.on_notify(e), directly or by               *)
(* notify(e, topic=T), is forwarded with the same type and data to every   *)
(* listener subscribed to T and to no other listener, and T does not       *)
(* consult its own handler mapping.                                        *)
(***************************************************************************)
\* the last bus call handed an event to this topic's on_notify
DeliveredToTopic(topic) ==
    \/ outcome.op = "on_notify" /\ outcome.self = topic
    \/ outcome.op = "notify" /\ outcome.arg[2] = topic

\* the receipts left by listeners other than the topic itself
Forwarded(topic) ==
    {i \in 1..Len(received) : received[i].listener # topic}

C10_TopicForwardsToSubscribers ==
    \A topic \in Topics :
        DeliveredToTopic(topic) =>
            /\ \A l \in subscribers[topic] \ {topic} :
                 \E i \in Forwarded(topic) :
                    /\ received[i].listener = l
                    /\ received[i].type = "PING"
                    /\ received[i].data.source = "src"
            /\ \A i \in Forwarded(topic) :
                 received[i].listener \in subscribers[topic]
            /\ \A i \in 1..Len(received) :
                 received[i].listener = topic => received[i].fired = None

(***************************************************************************)
(* C11: subscribe, unsubscribe and on_destroy calls, failing ones          *)
(* included, keep the two sides of every subscription in agreement: L is   *)
(* in P.subscribers exactly when P is in L.publishers.                     *)
(***************************************************************************)
BothSidesAgree(subs, pubs) ==
    \A p \in Publishers, l \in Listeners :
        l \in subs[p] <=> p \in pubs[l].elems

C11_SubscriptionSidesAgree ==
    (/\ outcome.op \in {"add_subscriber", "remove_subscriber", "on_destroy"}
     /\ BothSidesAgree(outcome.before.subscribers, outcome.before.publishers))
    => BothSidesAgree(subscribers, publishers)

(***************************************************************************)
(* C12: L.on_destroy() succeeds and leaves L in no publisher's subscriber  *)
(* set with an empty publisher back-reference set; it succeeds again when  *)
(* repeated; afterwards a publisher can again be registered on L's empty   *)
(* back-reference set.                                                     *)
(***************************************************************************)
C12_DestroyDetachesListener ==
    /\ outcome.op = "on_destroy"
       => /\ outcome.result = None
          /\ \A p \in Publishers : outcome.self \notin subscribers[p]
          /\ publishers[outcome.self].elems = {}
    /\ (/\ outcome.op = "add_publisher"
        /\ outcome.before.publishers[outcome.self].elems = {})
       => /\ outcome.result = None
          /\ outcome.arg \in publishers[outcome.self].elems

(***************************************************************************)
(* C13: registering a handler for a type that already has one on the same  *)
(* listener returns False, raises nothing and leaves the first handler     *)
(* bound; registering for a type with no handler binds it; on_notify       *)
(* invokes the handler bound under the event's type.                       *)
(***************************************************************************)
C13_DuplicateHandlerRejected ==
    /\ outcome.op = "add_event_listener"
       => LET l == outcome.self
              t == outcome.arg[1]
              f == outcome.arg[2]
              was == outcome.before.listeners
          IN  /\ \A o \in Listeners \ {l} : listeners[o] = was[o]
              /\ IF t \in DOMAIN was[l]
                 THEN /\ outcome.result = "False"
                      /\ listeners[l] = was[l]
                 ELSE /\ outcome.result = None
                      /\ DOMAIN listeners[l] = DOMAIN was[l] \cup {t}
                      /\ listeners[l][t] = f
                      /\ \A k \in DOMAIN was[l] : listeners[l][k] = was[l][k]
    /\ (/\ outcome.op = "on_notify"
        /\ outcome.arg \in DOMAIN listeners[outcome.self])
       => /\ Len(received) = 1
          /\ received[1].fired = listeners[outcome.self][outcome.arg]

\* a second handler was offered for a bound type and turned away
C13_Witness ==
    /\ outcome.op = "add_event_listener"
    /\ outcome.result = "False"
    /\ outcome.arg[1] \in DOMAIN listeners[outcome.self]
    /\ listeners[outcome.self][outcome.arg[1]] # outcome.arg[2]

(***************************************************************************)
(* C17: event types match ignoring letter case: on_notify invokes the      *)
(* handler registered for type t for every event whose type equals t up    *)
(* to case, whatever case t was registered in.                             *)
(***************************************************************************)
\* the keys of a handler mapping that equal a type up to case
SameIgnoringCase(handlers, type) ==
    {k \in DOMAIN handlers : Upper[k] = Upper[type]}

C17_TypeMatchIgnoresCase ==
    outcome.op = "on_notify" =>
        \A k \in SameIgnoringCase(listeners[outcome.self], outcome.arg) :
            SameIgnoringCase(listeners[outcome.self], outcome.arg) = {k}
            => /\ Len(received) = 1
               /\ received[1].fired = listeners[outcome.self][k]

(***************************************************************************)
(* C16: add emits REFRESHED only when the effect's bucket held an effect   *)
(* before the call; the first add of a unique, refreshable effect into a   *)
(* handler with no effect of that type stores it once and emits exactly    *)
(* one event, APPLIED.                                                     *)
(***************************************************************************)
C16_RefreshedOnlyOnOccupiedBucket ==
    /\ (/\ HasCall
        /\ IsAdd(LastCall)
        /\ \E i \in 1..Len(LastEvents) : LastEvents[i].type = "REFRESHED")
       => Active(LastCall.before, LastCall.effect.type) # <<>>
    /\ (/\ HasCall
        /\ IsAdd(LastCall)
        /\ UniqueRefresh(LastCall.effect)
        /\ Active(LastCall.before, LastCall.effect.type) = <<>>)
       => /\ Active(_dict, LastCall.effect.type) = <<LastCall.effect>>
          /\ Len(LastEvents) = 1
          /\ LastEvents[1].type = "APPLIED"
          /\ LastEvents[1].listener = LastCall.effect

(***************************************************************************)
(* C20: lifecycle balance.  When every effect object is added at most once *)
(* and every remove names an effect that is in the store, each effect that *)
(* was inserted and is no longer stored has received REMOVED, and each     *)
(* effect that received REMOVED is no longer stored.                       *)
(***************************************************************************)
InStore(effect) ==
    \E j \in 1..Len(Active(_dict, effect.type)) :
        Active(_dict, effect.type)[j] = effect

Inserted(effect) ==
    \E i \in 1..Len(calls) :
        IsAdd(calls[i]) /\ calls[i].effect = effect /\ calls[i].result = None

GotRemoved(effect) ==
    \E i \in 1..Len(delivered) :
        delivered[i].type = "REMOVED" /\ delivered[i].listener = effect

EachAddedOnceRemovedWhileStored ==
    /\ \A i, j \in 1..Len(calls) :
         (IsAdd(calls[i]) /\ IsAdd(calls[j]) /\ calls[i].effect = calls[j].effect)
         => i = j
    /\ \A i \in 1..Len(calls) :
         IsRemove(calls[i]) =>
            \E j \in 1..Len(Active(calls[i].before, calls[i].effect.type)) :
                Active(calls[i].before, calls[i].effect.type)[j] = calls[i].effect

C20_LifecycleBalance ==
    EachAddedOnceRemovedWhileStored =>
        \A effect \in Effects :
            /\ (Inserted(effect) /\ ~InStore(effect)) => GotRemoved(effect)
            /\ GotRemoved(effect) => ~InStore(effect)

(***************************************************************************)
(* C14 as stated: adding a topic to an EventStream under a name that       *)
(* exists returns false and leaves the topics mapping unchanged.           *)
(***************************************************************************)
AddedUnderExistingName ==
    /\ streamCall.op \in {"create", "add"}
    /\ streamCall.arg \in DOMAIN streamCall.before

C14_DuplicateTopicReturnsFalse ==
    AddedUnderExistingName =>
        /\ streamCall.raised = None
        /\ streamCall.returned = "False"
        /\ topics = streamCall.before

(***************************************************************************)
(* C14 amended: adding a topic under a name that exists (create or add)    *)
(* raises EventException and leaves the topics mapping unchanged, the      *)
(* topic registered before staying under that name; under a new name the   *)
(* topic is registered; in every reachable state each name maps to one     *)
(* topic, which carries that name.                                         *)
(***************************************************************************)
C14_DuplicateTopicRaises ==
    /\ AddedUnderExistingName
       => /\ streamCall.raised = "EventException"
          /\ topics = streamCall.before
    /\ (/\ streamCall.op \in {"create", "add"}
        /\ streamCall.arg \notin DOMAIN streamCall.before)
       => /\ streamCall.raised = None
          /\ DOMAIN topics = DOMAIN streamCall.before \cup {streamCall.arg}
          /\ \A k \in DOMAIN streamCall.before :
                topics[k] = streamCall.before[k]
    /\ \A name \in DOMAIN topics : topics[name].name = name

\* a second topic object was offered under a registered name
C14_Witness ==
    /\ AddedUnderExistingName
    /\ streamCall.op = "add"
    /\ topics[streamCall.arg] # EventTopic(streamCall.arg, 0)
    /\ streamCall.raised = "EventException"

(***************************************************************************)
(* C15: notify(event, topic=T) delivers the event through T.on_notify only *)
(* and to none of the publisher's own subscribers; notify(event) delivers  *)
(* it exactly once to every listener in the publisher's subscriber set and *)
(* to nobody else.                                                         *)
(***************************************************************************)
Receipts(listener) == {i \in 1..Len(received) : received[i].listener = listener}

C15_NotifyRoutes ==
    outcome.op = "notify" =>
        LET topic == outcome.arg[2]
            subs  == outcome.before.subscribers[outcome.self]
        IN  /\ outcome.result = None
            /\ \A i \in 1..Len(received) : received[i].type = outcome.arg[1]
            /\ IF topic # None
               THEN /\ Len(received) = 1
                    /\ received[1].listener = topic
               ELSE \A l \in Listeners :
                       Cardinality(Receipts(l)) = IF l \in subs THEN 1 ELSE 0

\* a publisher with a subscriber was told to deliver to a topic it does not
\* have among its subscribers
C15_Witness ==
    /\ outcome.op = "notify"
    /\ outcome.arg[2] \in Topics
    /\ subscribers[outcome.self] # {}
    /\ outcome.arg[2] \notin subscribers[outcome.self]
    /\ Len(received) = 1

(***************************************************************************)
(* C18: when, during Publisher.notify(event), a subscriber's handler       *)
(* subscribes or unsubscribes a listener (itself included) on the same     *)
(* publisher, the broadcast completes without error and delivers the event *)
(* exactly once to each listener subscribed when the broadcast started.    *)
(***************************************************************************)
C18_BroadcastSurvivesResubscription ==
    (/\ outcome.op = "notify"
     /\ outcome.arg[2] = None
     /\ outcome.self = HandlerPublisher
     /\ \E i \in 1..Len(received) : received[i].fired \in ReentrantHandlers)
    => /\ outcome.result = None
       /\ \A l \in Listeners :
            Cardinality(Receipts(l)) =
                IF l \in outcome.before.subscribers[outcome.self] THEN 1 ELSE 0

(***************************************************************************)
(* C19: the lifecycle events of EffectHandler.add and EffectHandler.remove *)
(* reach the listener of the effect passed to the call and nobody else: no *)
(* subscriber of the handler's topic and no other effect's listener gets   *)
(* an event from add or remove; the topic's subscribers get events only    *)
(* through EffectHandler.notify.                                           *)
(***************************************************************************)
C19_AddOrRemoveStep ==
    calls' # calls =>
        /\ received' = received
        /\ \A i \in (Len(delivered) + 1)..Len(delivered') :
              delivered'[i].listener = calls'[Len(calls')].effect

\* received holds what the subscribers got from the last call on the bus
C19_TopicSubscriberStep ==
    (received' # received /\ received' # <<>>) =>
        /\ calls' = calls
        /\ delivered' = delivered
        /\ outcome'.op = "notify"
        /\ outcome'.self = HandlerTopic
        /\ \A i \in 1..Len(received') :
              received'[i].listener \in subscribers[HandlerTopic]

C19_LifecycleEventsStayPrivate ==
    [][C19_AddOrRemoveStep /\ C19_TopicSubscriberStep]_vars

\* remove has just emitted while another effect is stored and the handler's
\* topic has a subscriber that was reached by EffectHandler.notify
C19_Witness ==
    /\ HasCall
    /\ IsRemove(LastCall)
    /\ LastEvents # <<>>
    /\ \E j \in 1..Len(Active(_dict, LastCall.effect.type)) :
          Active(_dict, LastCall.effect.type)[j] # LastCall.effect
    /\ subscribers[HandlerTopic] # {}
    /\ received # <<>>

====
